---------------------------- MODULE Spec2Model ----------------------------
(***************************************************************************)
(* A model of gettext2sheets.py: the catalog rewrite engine (locating an   *)
(* entry in a .po file and rewriting it), the pull driver that feeds it    *)
(* with spreadsheet rows and replaces the catalogs, and the push driver.   *)
(*                                                                         *)
(* Text is modelled as sequences of tokens.  A token stands for the        *)
(* characters of its string: a field name ("msgid"), a blank (" "), a      *)
(* double quote, a line break, a letter.  A line is the token sequence     *)
(* readline() returns, line break included; readline() at end-of-file     *)
(* returns the empty sequence.  A file is the sequence of its lines, and   *)
(* a file offset (tell/seek) is the number of lines before it.             *)
(***************************************************************************)
EXTENDS Integers, Sequences, FiniteSets, TLC

\* ------------------------------------------------------------------ bounds

\* Longest catalog (in lines) of the rewrite-engine specification.
MaxLines == 3

\* ------------------------------------------------------------------ tokens

SP == " "
Q == "\""
NL == "\n"
Whitespace == {SP, NL}

MSGID == <<"msgid">>
MSGSTR == <<"msgstr">>
MSGCTXT == <<"msgctxt">>
FILE_NAME_KEY == <<"_file_name">>

\* Tokens that spell a string beginning with the characters "msg".
StartsWithMsg(t) == t \in {"msgid", "msgstr", "msgctxt"}

Max(S) == CHOOSE x \in S : \A y \in S : y <= x

\* The line without its final line break ('$' also matches before it).
Chomp(line) ==
    IF Len(line) > 0 /\ line[Len(line)] = NL
    THEN SubSeq(line, 1, Len(line) - 1)
    ELSE line

\* str.strip(): leading and trailing whitespace removed.
RECURSIVE LStrip(_)
LStrip(s) ==
    IF Len(s) > 0 /\ s[1] \in Whitespace THEN LStrip(Tail(s)) ELSE s

RECURSIVE RStrip(_)
RStrip(s) ==
    IF Len(s) > 0 /\ s[Len(s)] \in Whitespace
    THEN RStrip(SubSeq(s, 1, Len(s) - 1))
    ELSE s

Strip(s) == RStrip(LStrip(s))

NoMatch == [matched |-> FALSE, field |-> <<>>, value |-> <<>>]

\* The places of b where \s" can match with a closing quote still to come.
EntryFieldSplits(b) == {i \in 2..(Len(b) - 2) : b[i] = SP /\ b[i + 1] = Q}

\* The match object for the line body b, S being EntryFieldSplits(b).
EntryFieldMatch(b, S) ==
    IF /\ S # {}
       /\ StartsWithMsg(b[1])
       /\ b[Len(b)] = Q
       /\ \A k \in 1..Len(b) : b[k] # NL
    THEN [matched |-> TRUE,
          field |-> SubSeq(b, 1, Max(S) - 1),
          value |-> SubSeq(b, Max(S) + 2, Len(b) - 1)]
    ELSE NoMatch

EntryFieldOf(b) == EntryFieldMatch(b, EntryFieldSplits(b))

\* RE_ENTRY_FIELD.match(line), pattern ^(msg.*)\s"(.*)"$ : group 1 is the
\* field, group 2 the value.  Group 1 is greedy: it ends at the LAST blank that
\* is followed by a quote.
RE_ENTRY_FIELD(line) == EntryFieldOf(Chomp(line))

QuotedString(t) ==
    /\ Len(t) >= 2
    /\ t[1] = Q
    /\ t[Len(t)] = Q
    /\ \A k \in 1..Len(t) : t[k] # NL

\* RE_EXTRA_STRING.match(line), pattern ^\s*"(.*)"\s*$ : a bare quoted string.
RE_EXTRA_STRING(line) == QuotedString(Strip(line))

\* '{0} "{1}"\n'.format(field, new_value)
FormatField(field, value) == field \o <<SP, Q>> \o value \o <<Q, NL>>

\* ------------------------------------------------------------------ files

\* file_handle.readline() at offset pos: the next line, or "" at end-of-file.
ReadLine(file, pos) == IF pos < Len(file) THEN file[pos + 1] ELSE <<>>

\* The offset after that readline().
AfterRead(file, pos) == IF pos < Len(file) THEN pos + 1 ELSE pos

\* --------------------------------------------------------- catalog locator

\* The locals of find_msgid_in_file at the top of its loop; pos is the read
\* handle's offset.  reads counts the readline() calls and wraps the seek(0)
\* calls of this invocation.
FindStart(pos) ==
    [status |-> "run", pos |-> pos, wrapped |-> FALSE, buffered_lines |-> <<>>,
     pre_entry_position |-> 0, reading_an_entry |-> FALSE,
     reads |-> 0, wraps |-> 0]

\* A wraparound that does not remember it has wrapped.
WrapAroundForgets(r) ==
    [r EXCEPT !.buffered_lines = <<>>, !.pre_entry_position = 0,
              !.reading_an_entry = FALSE, !.pos = 0, !.wraps = @ + 1]

\* The first end-of-file: wrap around to the start of the file, once.
WrapAround(r) ==
    [r EXCEPT !.wrapped = TRUE, !.buffered_lines = <<>>,
              !.pre_entry_position = 0, !.reading_an_entry = FALSE,
              !.pos = 0, !.wraps = @ + 1]

\* The loop body of find_msgid_in_file once the line is read and matched: r
\* holds the locals after readline(), match is RE_ENTRY_FIELD.match(line) and
\* extra tells whether RE_EXTRA_STRING matches.
FindClassified(r, msgid, beginning_of_line, at_eof, line, match, extra) ==
    IF at_eof /\ r.wrapped
    THEN [r EXCEPT !.status = "raised"]
    ELSE IF match.matched
    THEN IF match.field = MSGID /\ match.value = msgid
         THEN [r EXCEPT !.reading_an_entry = TRUE,
                        !.pre_entry_position =
                            IF r.reading_an_entry THEN @ ELSE beginning_of_line,
                        !.pos = IF r.reading_an_entry THEN r.pre_entry_position
                                ELSE beginning_of_line,
                        !.status = "found"]
         ELSE [r EXCEPT !.reading_an_entry = TRUE,
                        !.pre_entry_position =
                            IF r.reading_an_entry THEN @ ELSE beginning_of_line]
    ELSE [(IF at_eof THEN WrapAround(r) ELSE r) EXCEPT
              !.reading_an_entry = FALSE,
              !.buffered_lines =
                  IF extra THEN (IF r.reading_an_entry /\ ~at_eof THEN <<>> ELSE @)
                  ELSE Append(IF r.reading_an_entry /\ ~at_eof THEN <<>> ELSE @, line)]

\* One iteration of the loop of find_msgid_in_file.
FindRead(s, file, msgid, line) ==
    FindClassified([s EXCEPT !.pos = AfterRead(file, s.pos), !.reads = @ + 1],
                   msgid, s.pos, line = <<>>, line,
                   RE_ENTRY_FIELD(line), RE_EXTRA_STRING(line))

find_msgid_iter(file, msgid, s) == FindRead(s, file, msgid, ReadLine(file, s.pos))

RECURSIVE find_msgid_loop(_, _, _)
find_msgid_loop(file, msgid, s) ==
    IF s.status # "run" THEN s
    ELSE find_msgid_loop(file, msgid, find_msgid_iter(file, msgid, s))

\* find_msgid_in_file(file_handle, msgid) on a handle at offset pos: the final
\* locals (status "found": returned buffered_lines; "raised": error()).
find_msgid_in_file(file, pos, msgid) == find_msgid_loop(file, msgid, FindStart(pos))

\* --------------------------------------------------------- catalog rewriter

\* The optional (row, column_mapping) arguments of write_updated_entry_to_file.
NoUpdate == [given |-> FALSE, row |-> <<>>, column_mapping |-> <<>>]
Update(row, column_mapping) ==
    [given |-> TRUE, row |-> row, column_mapping |-> column_mapping]

\* file_handle.write(line) on a file held as its sequence of lines.
WriteLine(lines, line) == IF line = <<>> THEN lines ELSE Append(lines, line)

\* The state of write_updated_entry_to_file at the top of its loop: the read
\* offset and the lines written so far by this call.
WriteStart(pos) == [status |-> "run", pos |-> pos, written |-> <<>>]

\* An updated line that takes the cell before the mapped one.
UpdatedLineOffByOne(upd, field) ==
    FormatField(field, upd.row[Max({1, upd.column_mapping[field]})])

\* The line written for a field: new_value = row[column_mapping[field]]
\* (0-based), formatted as field "new_value".
UpdatedLine(upd, field) ==
    FormatField(field, upd.row[upd.column_mapping[field] + 1])

\* The loop body of write_updated_entry_to_file once the line is read and
\* matched.
RewriteWithoutSeek(s, upd, after, line, match, extra) ==
    IF ~match.matched /\ ~extra
    THEN [s EXCEPT !.pos = after, !.status = "done"]
    ELSE IF upd.given /\ match.matched
    THEN IF match.field \notin DOMAIN upd.column_mapping
         THEN [s EXCEPT !.pos = after, !.status = "KeyError"]
         ELSE IF upd.column_mapping[match.field] >= Len(upd.row)
         THEN [s EXCEPT !.pos = after, !.status = "IndexError"]
         ELSE [s EXCEPT !.pos = after,
                        !.written = WriteLine(@, UpdatedLine(upd, match.field))]
    ELSE [s EXCEPT !.pos = after, !.written = WriteLine(@, line)]

RewriteClassified(s, upd, after, line, match, extra) ==
    IF ~match.matched /\ ~extra
    THEN [s EXCEPT !.status = "done"]
    ELSE IF upd.given /\ match.matched
    THEN IF match.field \notin DOMAIN upd.column_mapping
         THEN [s EXCEPT !.pos = after, !.status = "KeyError"]
         ELSE IF upd.column_mapping[match.field] >= Len(upd.row)
         THEN [s EXCEPT !.pos = after, !.status = "IndexError"]
         ELSE [s EXCEPT !.pos = after,
                        !.written = WriteLine(@, UpdatedLine(upd, match.field))]
    ELSE [s EXCEPT !.pos = after, !.written = WriteLine(@, line)]

RewriteRead(s, file, upd, line) ==
    RewriteClassified(s, upd, AfterRead(file, s.pos), line,
                      RE_ENTRY_FIELD(line), RE_EXTRA_STRING(line))

\* One iteration of the loop of write_updated_entry_to_file.
write_updated_entry_iter(file, upd, s) ==
    RewriteRead(s, file, upd, ReadLine(file, s.pos))

RECURSIVE write_updated_entry_loop(_, _, _)
write_updated_entry_loop(file, upd, s) ==
    IF s.status # "run" THEN s
    ELSE write_updated_entry_loop(file, upd, write_updated_entry_iter(file, upd, s))

\* write_updated_entry_to_file(handles, row, column_mapping) with the read
\* handle at offset pos.
write_updated_entry_to_file(file, pos, upd) ==
    write_updated_entry_loop(file, upd, WriteStart(pos))

\* write_buffered_lines_to_file(file_handle, buffered_lines)
RECURSIVE write_buffered_lines_to_file(_, _)
write_buffered_lines_to_file(lines, buffered_lines) ==
    IF buffered_lines = <<>> THEN lines
    ELSE write_buffered_lines_to_file(WriteLine(lines, Head(buffered_lines)),
                                      Tail(buffered_lines))

\* ------------------------------------------------------------ column mapping

\* The placeholder of a static template, a token of its own.
FILE_NAME_ASSIGN == "{file_name}"
LOCALE_ASSIGN == "{locale}"

Contains(seq, t) == \E k \in 1..Len(seq) : seq[k] = t

\* The fields of one field-backed column, all mapped to index i.
RECURSIVE MapFields(_, _, _)
MapFields(ret, fields, i) ==
    IF fields = <<>> THEN ret
    ELSE MapFields((Head(fields) :> i) @@ ret, Tail(fields), i)

\* The loop of get_column_mapping from column index i on (0-based).
RECURSIVE ColumnMappingFrom(_, _, _)
ColumnMappingFrom(columns, i, acc) ==
    IF i >= Len(columns) THEN acc
    ELSE LET column == columns[i + 1]
         IN  IF "fields" \in DOMAIN column
             THEN ColumnMappingFrom(columns, i + 1,
                     [acc EXCEPT !.ret = MapFields(@, column.fields, i)])
             ELSE IF "static" \in DOMAIN column
                     /\ Contains(column.static, FILE_NAME_ASSIGN)
             THEN ColumnMappingFrom(columns, i + 1,
                     [ret |-> (FILE_NAME_KEY :> i) @@ acc.ret,
                      found_file_name |-> TRUE])
             ELSE ColumnMappingFrom(columns, i + 1, acc)

\* get_column_mapping(columns): ret, and found_file_name (FALSE: error()).
get_column_mapping(columns) ==
    ColumnMappingFrom(columns, 0, [ret |-> <<>>, found_file_name |-> FALSE])

\* Column configurations ("columns" of a locale's settings in config.json).
FileColumn == [static |-> <<FILE_NAME_ASSIGN>>, header |-> "FILE"]
MsgidColumn == [fields |-> <<MSGID>>, header |-> "ID"]
MsgstrColumn == [fields |-> <<MSGSTR>>, header |-> "TEXT"]
MsgctxtColumn == [fields |-> <<MSGCTXT>>, header |-> "CONTEXT"]
Columns3 == <<FileColumn, MsgidColumn, MsgstrColumn>>
Columns4 == <<FileColumn, MsgidColumn, MsgstrColumn, MsgctxtColumn>>

\* --------------------------------------------------------- range addressing

Letters ==
    <<"A", "B", "C", "D", "E", "F", "G", "H", "I", "J", "K", "L", "M",
      "N", "O", "P", "Q", "R", "S", "T", "U", "V", "W", "X", "Y", "Z">>

\* get_column_string(n): n, offset = divmod(n - 1, 26) until n is 0, the
\* letters reversed.
RECURSIVE PositionalColumnString(_)
PositionalColumnString(n) ==
    IF n <= 0 THEN <<>>
    ELSE PositionalColumnString(n \div 26) \o <<Letters[(n % 26) + 1]>>

RECURSIVE get_column_string(_)
get_column_string(n) ==
    IF n <= 0 THEN <<>>
    ELSE get_column_string((n - 1) \div 26) \o <<Letters[((n - 1) % 26) + 1]>>

\* "{0}!{1}{2}:{3}{4}".format(sheet, column_start, row_start, column_end, row_end)
generate_range_name(sheet, row_start, row_end, column_start, column_end) ==
    <<sheet, "!">> \o column_start \o <<ToString(row_start), ":">>
    \o column_end \o <<ToString(row_end)>>

\* ------------------------------------------------------ template extraction

IsAssign(t) == t \in {FILE_NAME_ASSIGN, LOCALE_ASSIGN}
AssignName(t) == IF t = FILE_NAME_ASSIGN THEN "file_name" ELSE "locale"

NoGroups == [ok |-> FALSE, groups |-> <<>>]

\* The reverse template matched at the start of s: literals match themselves,
\* a placeholder is the greedy group (?P<name>.*); nothing anchors the end.
RECURSIVE MatchTemplate(_, _)
MatchTemplate(t, s) ==
    IF t = <<>> THEN [ok |-> TRUE, groups |-> <<>>]
    ELSE IF ~IsAssign(Head(t))
    THEN IF s # <<>> /\ Head(s) = Head(t)
         THEN MatchTemplate(Tail(t), Tail(s))
         ELSE NoGroups
    ELSE LET fits == {k \in 0..Len(s) :
                        /\ \A j \in 1..k : s[j] # NL
                        /\ MatchTemplate(Tail(t), SubSeq(s, k + 1, Len(s))).ok}
         IN  IF fits = {} THEN NoGroups
             ELSE LET k == Max(fits)
                      rest == MatchTemplate(Tail(t), SubSeq(s, k + 1, Len(s)))
                  IN  [ok |-> TRUE,
                       groups |-> rest.groups @@
                                  (AssignName(Head(t)) :> SubSeq(s, 1, k))]

\* extract_string_assigns(template, string): the groupdict of the first match
\* of re.finditer (the leftmost one); not ok: next() raises StopIteration.
extract_string_assigns(template, string) ==
    LET starts == {i \in 0..Len(string) :
                     MatchTemplate(template, SubSeq(string, i + 1, Len(string))).ok}
    IN  IF starts = {} THEN NoGroups
        ELSE MatchTemplate(template,
                 SubSeq(string, (CHOOSE i \in starts : \A j \in starts : i <= j) + 1,
                        Len(string)))

\* ------------------------------------------------------------------- paths

\* A path is the sequence of its segments; str(path) joins them with "/".
P_EN_A == <<"po", "en", "LC_MESSAGES", "a.po">>
P_EN_B == <<"po", "en", "LC_MESSAGES", "b.po">>
P_FR_A == <<"po", "fr", "LC_MESSAGES", "a.po">>
P_DE_A == <<"po", "de", "LC_MESSAGES", "a.po">>
P_BARE == <<"po", "a.po">>

\* posix_path.name, as the text of a cell.
NameOf(path) == <<path[Len(path)]>>

\* Segments made of letters and hyphens only ([a-zA-Z-]+).
LetterSegments == {"po", "en", "fr", "de"}

\* get_locale_by_path(path): RE_LC_MESSAGES.search, /([a-zA-Z-]+)/LC_MESSAGES;
\* not ok: error().
get_locale_by_path(path) ==
    LET hits == {k \in 2..(Len(path) - 1) :
                    path[k] \in LetterSegments /\ path[k + 1] = "LC_MESSAGES"}
    IN  IF hits = {} THEN [ok |-> FALSE, locale |-> ""]
        ELSE [ok |-> TRUE,
              locale |-> path[CHOOSE k \in hits : \A j \in hits : k <= j]]

\* The first loop of handle_pull: locale_file_paths and, in insertion order,
\* its keys; not ok when get_locale_by_path raised.
RECURSIVE GroupByLocale(_, _, _)
GroupByLocale(files, locale_list, locale_file_paths) ==
    IF files = <<>>
    THEN [ok |-> TRUE, locale_list |-> locale_list,
          locale_file_paths |-> locale_file_paths]
    ELSE LET posix_path == Head(files)
             found == get_locale_by_path(posix_path)
             locale == found.locale
             known == locale \in DOMAIN locale_file_paths
             path_map == IF known THEN locale_file_paths[locale] ELSE <<>>
         IN  IF ~found.ok
             THEN [ok |-> FALSE, locale_list |-> locale_list,
                   locale_file_paths |-> locale_file_paths]
             ELSE GroupByLocale(Tail(files),
                     IF known THEN locale_list ELSE Append(locale_list, locale),
                     (locale :> ((NameOf(posix_path) :> posix_path) @@ path_map))
                        @@ locale_file_paths)

\* metadata of handle_push; the timestamp is the text of the clock.
Metadata(posix_path, locale) ==
    [file_name |-> NameOf(posix_path), locale |-> <<locale>>, timestamp |-> <<"now">>]

\* parse_static_text: every assign is replaced by metadata.get(name, "").
RECURSIVE parse_static_text(_, _)
parse_static_text(static_text, metadata) ==
    IF static_text = <<>> THEN <<>>
    ELSE (IF IsAssign(Head(static_text))
          THEN IF AssignName(Head(static_text)) \in DOMAIN metadata
               THEN metadata[AssignName(Head(static_text))]
               ELSE <<>>
          ELSE <<Head(static_text)>>)
         \o parse_static_text(Tail(static_text), metadata)

\* -------------------------------------------------------------- filesystem

\* The filesystem maps <<path, suffix>> to the lines of the file there; a path
\* outside its domain does not exist.
Orig(path) == <<path, "">>
Tmp(path) == <<path, ".tmp">>
Old(path) == <<path, ".old">>

Exists(files, key) == key \in DOMAIN files

\* open(name, "w") followed by the writes: the file holds these lines.
WriteFile(files, key, lines) == (key :> lines) @@ files

\* os.remove(key)
Remove(files, key) == [k \in DOMAIN files \ {key} |-> files[k]]

\* os.rename(src, dst): dst is replaced.
Rename(files, src, dst) ==
    [k \in (DOMAIN files \ {src}) \cup {dst} |-> IF k = dst THEN files[src] ELSE files[k]]

\* One iteration of pull_by_locale's closing loop for the file at full_path:
\* remove .old when it exists, rename the original to .old, the .tmp to it.
PromoteKeepsStaleOld(files, full_path) ==
    IF Exists(files, Old(full_path))
    THEN Rename(files, Tmp(full_path), Orig(full_path))
    ELSE Rename(Rename(files, Orig(full_path), Old(full_path)),
                Tmp(full_path), Orig(full_path))

Promote(files, full_path) ==
    LET removed == IF Exists(files, Old(full_path))
                   THEN Remove(files, Old(full_path))
                   ELSE files
    IN  Rename(Rename(removed, Orig(full_path), Old(full_path)),
               Tmp(full_path), Orig(full_path))

\* ------------------------------------------------- the rewrite engine alone

\* Lines a catalog of the engine specification is made of.
LineHeaderId == FormatField(MSGID, <<>>)
LineIdA == FormatField(MSGID, <<"a">>)
LineIdB == FormatField(MSGID, <<"b">>)
LineStrX == FormatField(MSGSTR, <<"x">>)
LineCtxC == FormatField(MSGCTXT, <<"c">>)
LineExtra == <<Q, "h", Q, NL>>
LineComment == <<"#", NL>>
LineBlank == <<NL>>
EngineLines == {LineHeaderId, LineIdA, LineStrX, LineCtxC, LineExtra, LineComment}

SeqsUpTo(S, n) == UNION {[1..k -> S] : k \in 0..n}

EngineCatalogs == SeqsUpTo(EngineLines, MaxLines)

\* Cell values of the rows of the engine specification.
EngineMsgids == {<<>>, <<"a">>, <<"b">>}
FullRow(msgid) == <<<<"a.po">>, msgid, <<"y">>, <<"k">>>>

\* Rows as the service returns them for a column list: trailing cells may be
\* missing, the msgid cell (read by process_chunk) is there.
EngineUpdates ==
    {NoUpdate} \cup
    {Update(SubSeq(FullRow(m), 1, n), get_column_mapping(cols).ret) :
        m \in EngineMsgids, n \in 2..4, cols \in {Columns3, Columns4}}


\* ------------------------------------------------------ the pull operations

NoHandles == [keys |-> <<>>, handles |-> <<>>]

\* any(row): some cell is a non-empty string.
AnyCell(row) == \E k \in 1..Len(row) : row[k] # <<>>

\* open_handle_pair after its write_updated_entry_to_file(handle_map).
OpenCopied(files, target_file, found, copied) ==
    [files |-> WriteFile(files, Tmp(target_file),
                  write_buffered_lines_to_file(<<>>, found.buffered_lines)
                  \o copied.written),
     err |-> "",
     handle |-> [path |-> target_file, read |-> copied.pos, closed |-> FALSE]]

\* open_handle_pair after its find_msgid_in_file(handle_map["read"], "").
OpenLocated(files, file, target_file, found) ==
    IF found.status = "raised"
    THEN [files |-> WriteFile(files, Tmp(target_file), <<>>),
          err |-> "EntryNotFoundError",
          handle |-> [path |-> target_file, read |-> found.pos, closed |-> FALSE]]
    ELSE OpenCopied(files, target_file, found,
                    write_updated_entry_to_file(file, found.pos, NoUpdate))

\* open_handle_pair(target_file): the .tmp file is created, the header entry
\* (msgid "") located and copied with what precedes it.  err is "" or the
\* error raised; handle is the pair, the write handle being the .tmp file.
open_handle_pair(files, target_file) ==
    OpenLocated(files, files[Orig(target_file)], target_file,
                find_msgid_in_file(files[Orig(target_file)], 0, <<>>))

\* The result of a row: the filesystem, file_handle_map with the handles h of
\* base_filename, and the error raised ("" when none).
RowResult(fhm, base_filename, h, files, e) ==
    [files |-> files,
     file_handle_map |->
        [keys |-> IF base_filename \in DOMAIN fhm.handles THEN fhm.keys
                  ELSE Append(fhm.keys, base_filename),
         handles |-> (base_filename :> h) @@ fhm.handles],
     err |-> e]

\* process_chunk's row after write_updated_entry_to_file(handles, row, ...).
RowUpdated(files, fhm, base_filename, handles, buffered, updated) ==
    RowResult(fhm, base_filename, [handles EXCEPT !.read = updated.pos],
              WriteFile(files, Tmp(handles.path), buffered \o updated.written),
              IF updated.status = "done" THEN "" ELSE updated.status)

\* process_chunk's row after find_msgid_in_file(handles["read"], ...).
RowLocated(files, fhm, loc, row, base_filename, handles, found) ==
    IF found.status = "raised"
    THEN RowResult(fhm, base_filename, [handles EXCEPT !.read = found.pos],
                   files, "EntryNotFoundError")
    ELSE RowUpdated(files, fhm, base_filename, handles,
             write_buffered_lines_to_file(files[Tmp(handles.path)],
                                          found.buffered_lines),
             write_updated_entry_to_file(files[Orig(handles.path)], found.pos,
                                         Update(row, loc.column_mapping)))

\* process_chunk's row once the handle pair of its file is there.
RowOpened(fhm, loc, row, base_filename, opened) ==
    IF opened.err # ""
    THEN [files |-> opened.files, file_handle_map |-> fhm, err |-> opened.err]
    ELSE IF loc.column_mapping[MSGID] >= Len(row)
    THEN RowResult(fhm, base_filename, opened.handle, opened.files, "IndexError")
    ELSE RowLocated(opened.files, fhm, loc, row, base_filename, opened.handle,
             find_msgid_in_file(opened.files[Orig(opened.handle.path)],
                                opened.handle.read,
                                row[loc.column_mapping[MSGID] + 1]))

\* process_chunk's row after extract_string_assigns: the target file is looked
\* up and its handle pair opened at the first row that names it.
RowAssigned(files, fhm, loc, row, assigns) ==
    IF ~assigns.ok
    THEN [files |-> files, file_handle_map |-> fhm, err |-> "TemplateMismatchError"]
    ELSE IF "file_name" \notin DOMAIN assigns.groups
    THEN [files |-> files, file_handle_map |-> fhm, err |-> "KeyError"]
    ELSE IF assigns.groups["file_name"] \notin DOMAIN loc.file_path_map
    THEN [files |-> files, file_handle_map |-> fhm, err |-> "KeyError"]
    ELSE RowOpened(fhm, loc, row, assigns.groups["file_name"],
             IF assigns.groups["file_name"] \in DOMAIN fhm.handles
             THEN [files |-> files, err |-> "",
                   handle |-> fhm.handles[assigns.groups["file_name"]]]
             ELSE open_handle_pair(files,
                      loc.file_path_map[assigns.groups["file_name"]]))

\* The body of process_chunk's loop for one row.  loc holds the arguments
\* file_path_map, column_mapping and file_name_template; fhm is
\* file_handle_map.  The result is the filesystem, file_handle_map and the
\* error raised ("" when none).
process_row(files, fhm, loc, row) ==
    IF ~AnyCell(row)
    THEN [files |-> files, file_handle_map |-> fhm, err |-> ""]
    ELSE IF loc.column_mapping[FILE_NAME_KEY] >= Len(row)
    THEN [files |-> files, file_handle_map |-> fhm, err |-> "IndexError"]
    ELSE RowAssigned(files, fhm, loc, row,
             extract_string_assigns(loc.file_name_template,
                                    row[loc.column_mapping[FILE_NAME_KEY] + 1]))

\* The rows of a sheet (held from its row 1 on) that lie in a range.
RowsInRange(cells, row_start, row_end) ==
    SubSeq(cells, row_start, IF row_end < Len(cells) THEN row_end ELSE Len(cells))

\* The same without its trailing rows of empty cells.
RECURSIVE TrimBlankRows(_)
TrimBlankRows(rows) ==
    IF rows # <<>> /\ ~AnyCell(rows[Len(rows)])
    THEN TrimBlankRows(SubSeq(rows, 1, Len(rows) - 1))
    ELSE rows


\* ------------------------------------------------------------------- state

VARIABLES
    catalog,      \* engine: the lines of the file the read handle is open on
    update,       \* engine: the (row, column_mapping) of the rewrite, or NoUpdate
    msgid,        \* engine: the msgid looked for
    start,        \* engine: the read offset when find_msgid_in_file is called
    epc,          \* engine: "find", "buffered", "write", "returned", "raised", "failed"
    find_state,   \* engine: locals of find_msgid_in_file
    write_state,  \* engine: locals of write_updated_entry_to_file
    out,          \* engine: the lines written to the write handle
    pc,           \* where the run of main() is
    run,          \* "first" or "second" run of the program on this filesystem
    config,       \* CONFIG, the content of config.json
    file_list,    \* find_files(CONFIG["path"], ".po")
    fs,           \* the filesystem
    fs0,          \* the filesystem when the current run started
    sheets,       \* the spreadsheet: sheet name -> rows, from row 1 on
    requests,     \* the requests sent to the spreadsheet service, with the answers
    locale_file_paths, \* handle_pull: locale -> (file name -> path)
    locale_queue, \* handle_pull: the locales still to be pulled, in order
    loc,          \* locals of pull_by_locale (pull), of handle_push (push)
    err           \* the exception that ended the run, "" when none

engine_vars == <<catalog, update, msgid, start, epc, find_state, write_state, out>>
driver_vars == <<pc, run, config, file_list, fs, fs0, sheets, requests,
                 locale_file_paths, locale_queue, loc, err>>
vars == <<engine_vars, driver_vars>>

IdleLoc ==
    [sheet |-> "", row_start |-> 0, row_end |-> 0, column_start |-> <<>>,
     column_end |-> <<>>, column_mapping |-> <<>>, chunk_size |-> 0,
     file_name_template |-> <<>>, file_path_map |-> <<>>,
     file_handle_map |-> NoHandles, data |-> <<>>, closing |-> 0]

\* The drivers are not running (the engine specification).
DriverIdle ==
    /\ pc = "idle"
    /\ run = "first"
    /\ config = <<>>
    /\ file_list = <<>>
    /\ fs = <<>>
    /\ fs0 = <<>>
    /\ sheets = <<>>
    /\ requests = <<>>
    /\ locale_file_paths = <<>>
    /\ locale_queue = <<>>
    /\ loc = IdleLoc
    /\ err = ""

\* The engine is not stepped on its own (the driver specifications).
EngineIdle ==
    /\ catalog = <<>>
    /\ update = NoUpdate
    /\ msgid = <<>>
    /\ start = 0
    /\ epc = "idle"
    /\ find_state = FindStart(0)
    /\ write_state = WriteStart(0)
    /\ out = <<>>

\* ------------------------------------------------- the rewrite engine alone

InitEngine ==
    /\ catalog \in EngineCatalogs
    /\ update \in EngineUpdates
    /\ msgid = IF update.given
               THEN update.row[update.column_mapping[MSGID] + 1]
               ELSE <<>>
    /\ start \in 0..Len(catalog)
    /\ epc = "find"
    /\ find_state = FindStart(start)
    /\ write_state = WriteStart(0)
    /\ out = <<>>
    /\ DriverIdle

\* One iteration of find_msgid_in_file's loop.
LocateStep ==
    /\ epc = "find"
    /\ find_state' = find_msgid_iter(catalog, msgid, find_state)
    /\ epc' = CASE find_state'.status = "found" -> "buffered"
                [] find_state'.status = "raised" -> "raised"
                [] OTHER -> "find"
    /\ UNCHANGED <<catalog, update, msgid, start, write_state, out>>
    /\ UNCHANGED driver_vars

\* write_buffered_lines_to_file with the list find_msgid_in_file returned.
WriteBuffered ==
    /\ epc = "buffered"
    /\ out' = write_buffered_lines_to_file(out, find_state.buffered_lines)
    /\ write_state' = WriteStart(find_state.pos)
    /\ epc' = "write"
    /\ UNCHANGED <<catalog, update, msgid, start, find_state>>
    /\ UNCHANGED driver_vars

\* One iteration of write_updated_entry_to_file's loop.
RewriteStep ==
    /\ epc = "write"
    /\ write_state' = write_updated_entry_iter(catalog, update, write_state)
    /\ out' = out \o SubSeq(write_state'.written, Len(write_state.written) + 1,
                            Len(write_state'.written))
    /\ epc' = CASE write_state'.status = "done" -> "returned"
                [] write_state'.status = "run" -> "write"
                [] OTHER -> "failed"
    /\ UNCHANGED <<catalog, update, msgid, start, find_state>>
    /\ UNCHANGED driver_vars

NextEngine == LocateStep \/ WriteBuffered \/ RewriteStep

SpecEngine == InitEngine /\ [][NextEngine]_vars

\* ------------------------------------------------ claims about the engine

\* Some line of the catalog is literally: msgid "<the msgid looked for>".
MsgidLinePresent ==
    \E k \in 1..Len(catalog) : catalog[k] = FormatField(MSGID, msgid)

\* C1: find_msgid_in_file terminates after wrapping to the start of the file
\* at most once: it reads at most every line twice plus the two end-of-file
\* reads, it returns successfully when a line msgid "<target>" exists (also
\* one before the cursor) and raises on the second end-of-file when none does.
C1_FindTerminates ==
    /\ find_state.wraps <= 1
    /\ find_state.reads <= 2 * Len(catalog) + 2
    /\ (epc = "find") <=> (find_state.status = "run")
    /\ find_state.status = "found" => MsgidLinePresent
    /\ find_state.status = "raised" =>
          /\ ~MsgidLinePresent
          /\ find_state.wraps = 1
          /\ find_state.pos = Len(catalog)

\* C1 witness: a target that lies before the cursor was found after one
\* wraparound.
C1_Witness ==
    /\ find_state.status = "found"
    /\ find_state.wraps = 1
    /\ start > 0
    /\ \E k \in 1..start : catalog[k] = FormatField(MSGID, msgid)

\* The k-th line write_updated_entry_to_file has consumed so far.
Consumed(k) == catalog[find_state.pos + k]
ConsumedCount == write_state.pos - find_state.pos

\* A field line whose field has a mapping that is a cell of the row.
Mapped(line) ==
    LET match == RE_ENTRY_FIELD(line)
    IN  /\ match.field \in DOMAIN update.column_mapping
        /\ update.column_mapping[match.field] < Len(update.row)

\* C2: with an update row and every field of the entry mapped to a cell of the
\* row, write_updated_entry_to_file writes, in order, field "row[mapping[field]]"
\* for each entry-field line it consumes and the line itself for each
\* continuation-string line.
C2_RewriteWritesRowValues ==
    (/\ epc \in {"write", "returned"}
     /\ update.given
     /\ \A k \in 1..ConsumedCount :
           RE_ENTRY_FIELD(Consumed(k)).matched => Mapped(Consumed(k)))
    => /\ Len(write_state.written) = ConsumedCount
       /\ \A k \in 1..ConsumedCount :
             LET match == RE_ENTRY_FIELD(Consumed(k))
             IN  IF match.matched
                 THEN write_state.written[k] =
                        match.field \o <<SP, Q>>
                        \o update.row[update.column_mapping[match.field] + 1]
                        \o <<Q, NL>>
                 ELSE /\ RE_EXTRA_STRING(Consumed(k))
                      /\ write_state.written[k] = Consumed(k)

\* C2 witness: a rewrite with an update row returned after consuming a field
\* line and a continuation-string line.
C2_Witness ==
    /\ epc = "returned"
    /\ update.given
    /\ \E k \in 1..ConsumedCount : RE_ENTRY_FIELD(Consumed(k)).matched
    /\ \E k \in 1..ConsumedCount : RE_EXTRA_STRING(Consumed(k))
    /\ \E k \in 1..ConsumedCount :
          /\ RE_ENTRY_FIELD(Consumed(k)).matched
          /\ write_state.written[k] # Consumed(k)

\* C3 (as claimed): in a rewrite with an update row, a field line whose field
\* has no mapping, or whose mapped index is beyond the row, is copied through
\* unchanged and the rewrite does not fail.
C3_UnmappedFieldCopied ==
    (epc \in {"write", "returned", "failed"} /\ update.given)
    => /\ epc # "failed"
       /\ \A k \in 1..ConsumedCount :
             (RE_ENTRY_FIELD(Consumed(k)).matched /\ ~Mapped(Consumed(k)))
             => /\ k <= Len(write_state.written)
                /\ write_state.written[k] = Consumed(k)

\* A line msgid "...", of any entry.
IsMsgidLine(line) ==
    RE_ENTRY_FIELD(line).matched /\ RE_ENTRY_FIELD(line).field = MSGID

\* The msgid lines at or after the read cursor find_msgid_in_file left.
MsgidLinesFromCursor ==
    {k \in (find_state.pos + 1)..Len(catalog) : IsMsgidLine(catalog[k])}

\* C17: when find_msgid_in_file has returned, the line at the read cursor is
\* an entry-field line and the first msgid line at or after the cursor is the
\* one of the target: no msgid line of another entry lies before it.
C17_CursorAtMatchedEntry ==
    find_state.status = "found" =>
        /\ find_state.pos < Len(catalog)
        /\ RE_ENTRY_FIELD(catalog[find_state.pos + 1]).matched
        /\ MsgidLinesFromCursor # {}
        /\ RE_ENTRY_FIELD(
              catalog[CHOOSE k \in MsgidLinesFromCursor :
                         \A j \in MsgidLinesFromCursor : k <= j]).value = msgid

\* A line that is neither an entry field nor a continuation string.
IsContextLine(line) == ~RE_ENTRY_FIELD(line).matched /\ ~RE_EXTRA_STRING(line)

\* Where the scan that found the entry began: the start of the file after a
\* wraparound, the cursor at the call otherwise.
ScanStart == IF find_state.wraps = 1 THEN 0 ELSE start

\* The end of the last run of field lines between the scan start and the
\* cursor, the scan start when there is none.
LastRunEnd ==
    Max({ScanStart} \cup {k \in (ScanStart + 1)..find_state.pos :
                              RE_ENTRY_FIELD(catalog[k]).matched})

\* The context lines between that run and the entry.
ContextBeforeEntry ==
    SelectSeq(SubSeq(catalog, LastRunEnd + 1, find_state.pos), IsContextLine)

\* C18: the list find_msgid_in_file returns holds the context lines between
\* the last run of field lines before the entry (or the scan start) and the
\* entry, in file order, each one a non-empty line of the file.
C18_BufferedContext ==
    find_state.status = "found" =>
        /\ find_state.buffered_lines = ContextBeforeEntry
        /\ \A k \in 1..Len(find_state.buffered_lines) :
              find_state.buffered_lines[k] # <<>>

\* The same, but for the end-of-file read that a wraparound leaves in the list.
C18_BufferedContextButEofRead ==
    find_state.status = "found" =>
        find_state.buffered_lines =
            (IF find_state.wraps = 1 /\ LastRunEnd = 0 THEN <<<<>>>> ELSE <<>>)
            \o ContextBeforeEntry

C19_RewriteStep ==
    epc = "write" => (epc' # "write" \/ write_state'.pos > write_state.pos)

C19_RewriteReturned ==
    /\ epc = "write" => write_state.pos <= Len(catalog)
    /\ epc = "returned" =>
          /\ write_state.pos \in find_state.pos..Len(catalog)
          /\ \A k \in (find_state.pos + 1)..write_state.pos :
                ~IsContextLine(catalog[k])
          /\ write_state.pos < Len(catalog) =>
                /\ IsContextLine(catalog[write_state.pos + 1])
                /\ ReadLine(catalog, write_state.pos) = catalog[write_state.pos + 1]
          /\ write_state.pos = Len(catalog) => ReadLine(catalog, write_state.pos) = <<>>
          /\ Len(write_state.written) = write_state.pos - find_state.pos

\* C19: write_updated_entry_to_file ends (every iteration that does not end
\* it moves the read cursor forward, which never passes the end of the file),
\* and when it has returned the read cursor is at the first line after the
\* entry that is neither a field nor a continuation string, or at the end of
\* the file: the lines before it were written, that line was not, and it is
\* the line the next read gives.
C19_RewriteStopsAtContext == [][C19_RewriteStep]_vars /\ []C19_RewriteReturned

\* The rewrite returned at a comment after the entry; the entry was the last
\* thing in the file when the cursor is at its end.
C19_Witness ==
    /\ epc = "returned"
    /\ write_state.pos > find_state.pos
    /\ write_state.pos < Len(catalog)
    /\ catalog[write_state.pos + 1] = LineComment

\* ------------------------------------------------------------ the pull run

\* Largest number of data rows of a sheet, and largest pull_chunk_size.
MaxRows == 2
MaxChunk == 2
\* Longest catalog body, in blocks (entries, blank lines, comments).
MaxBlocks == 4

LineHeaderStr == FormatField(MSGSTR, <<>>)
HeaderBlock == <<LineHeaderId, LineHeaderStr, LineExtra>>
EntryA == <<LineIdA, LineStrX>>
EntryB == <<LineIdB, LineStrX>>
BodyBlocks == {EntryA, EntryB, <<LineBlank>>, <<LineComment>>}

RECURSIVE Flatten(_)
Flatten(blocks) == IF blocks = <<>> THEN <<>> ELSE Head(blocks) \o Flatten(Tail(blocks))

\* Catalogs of the pull run: a header entry (or none) and a body of blocks.
PullCatalogs ==
    {pre \o Flatten(body) : pre \in {<<>>, HeaderBlock},
                            body \in SeqsUpTo(BodyBlocks, MaxBlocks)}
CatalogHAB == HeaderBlock \o <<LineBlank>> \o EntryA \o <<LineBlank>> \o EntryB
SmallCatalogs == {CatalogHAB, HeaderBlock \o EntryA}
StaleLines == <<LineComment, LineComment>>

\* Rows of a sheet: file name, msgid, msgstr.
HeaderRow == <<<<"FILE">>, <<"ID">>, <<"TEXT">>>>
RowA == <<<<"a.po">>, <<"a">>, <<"y">>>>
RowB == <<<<"a.po">>, <<"b">>, <<"y">>>>
RowFileB == <<<<"b.po">>, <<"a">>, <<"y">>>>
RowShort == <<<<"a.po">>, <<"a">>>>
RowBlank == <<>>
RowMissing == <<<<"a.po">>, <<"zz">>, <<"y">>>>

\* A column list without a {file_name} template.
LocaleColumn == [static |-> <<LOCALE_ASSIGN>>, header |-> "LOCALE"]
ColumnsNoFileName == <<LocaleColumn, MsgidColumn, MsgstrColumn>>

Settings(sheet, row_offset, columns) ==
    [sheet |-> sheet, row_offset |-> row_offset, column_offset |-> 0,
     columns |-> columns]

\* CONFIG: locales en and fr are configured, de is not.
Config(chunk_size, row_offset, columns) ==
    [spreadsheet_id |-> "id", pull_chunk_size |-> chunk_size,
     locales |-> [l \in {"en", "fr"} |->
                    IF l = "en" THEN Settings("Sheet1", row_offset, columns)
                    ELSE Settings("Sheet2", 0, Columns3)]]

\* A sheet as push leaves it: row_offset rows, the header row, the data rows.
SheetCells(row_offset, data) ==
    [k \in 1..row_offset |-> <<>>] \o <<HeaderRow>> \o data

FileLists ==
    {<<P_EN_A>>, <<P_EN_A, P_EN_B>>, <<P_EN_A, P_FR_A>>, <<P_DE_A, P_EN_A>>,
     <<P_EN_A, P_BARE>>}

\* The catalogs of a file list, the one at po/en/LC_MESSAGES/a.po being lines.
Catalogs(files, lines) ==
    [key \in {Orig(files[k]) : k \in 1..Len(files)} |->
        IF key = Orig(P_EN_A) THEN lines ELSE CatalogHAB]

\* Left-overs of an earlier run beside po/en/LC_MESSAGES/a.po.
Stale == (Old(P_EN_A) :> StaleLines) @@ (Tmp(P_EN_A) :> StaleLines)

InitRun ==
    /\ EngineIdle
    /\ pc = "start"
    /\ run = "first"
    /\ fs0 = fs
    /\ requests = <<>>
    /\ locale_file_paths = <<>>
    /\ locale_queue = <<>>
    /\ loc = IdleLoc
    /\ err = ""

\* One catalog of every shape, pulled with rows that name its entries.
InitOneCatalog ==
    /\ file_list = <<P_EN_A>>
    /\ config = Config(MaxChunk, 0, Columns3)
    /\ \E lines \in PullCatalogs : fs = Catalogs(file_list, lines)
    /\ \E data \in SeqsUpTo({RowA, RowB}, MaxRows) :
          sheets = [n \in {"Sheet1", "Sheet2"} |->
                       IF n = "Sheet1" THEN SheetCells(0, data) ELSE <<HeaderRow>>]

\* Several files and locales, every configuration, rows of every kind.
InitManyFiles ==
    /\ file_list \in FileLists
    /\ \E chunk_size \in 1..MaxChunk, row_offset \in {0, 1},
          columns \in {Columns3, ColumnsNoFileName},
          data \in SeqsUpTo({RowA, RowBlank, RowFileB, RowShort}, MaxRows),
          data_fr \in {<<>>, <<RowA>>, <<RowMissing>>} :
          /\ config = Config(chunk_size, row_offset, columns)
          /\ sheets = [n \in {"Sheet1", "Sheet2"} |->
                          IF n = "Sheet1" THEN SheetCells(row_offset, data)
                          ELSE SheetCells(0, data_fr)]
    /\ \E lines \in SmallCatalogs, stale \in {<<>>, Stale} :
          fs = stale @@ Catalogs(file_list, lines)

\* Column lists of a pull: file-name templates with a second placeholder or a
\* literal, a field listed by two columns, a column with fields and a static
\* template.
StaticColumn(static) == [static |-> static, header |-> "FILE"]
FileNameTemplates ==
    {<<LOCALE_ASSIGN, FILE_NAME_ASSIGN>>, <<LOCALE_ASSIGN, "/", FILE_NAME_ASSIGN>>,
     <<"x", FILE_NAME_ASSIGN>>}
ColumnsDuplicateField ==
    <<FileColumn, MsgidColumn, [fields |-> <<MSGSTR, MSGID>>, header |-> "TEXT"]>>
ColumnsFieldsAndStatic ==
    <<[fields |-> <<MSGCTXT>>, static |-> <<FILE_NAME_ASSIGN>>, header |-> "FILE"],
      MsgidColumn, MsgstrColumn>>
PullLayouts ==
    {<<StaticColumn(t), MsgidColumn, MsgstrColumn>> : t \in FileNameTemplates}
    \cup {ColumnsDuplicateField, ColumnsFieldsAndStatic}

\* The row push writes for the entry a of the file at path: the first cell is
\* the static text of the first column.
RenderedRow(columns, path, locale) ==
    <<parse_static_text(columns[1].static, Metadata(path, locale)), <<"a">>, <<"y">>>>
RowUnmatched == <<<<"zz">>, <<"a">>, <<"y">>>>

\* One catalog, every column list, a row as push wrote it or another one.
InitLayouts ==
    /\ file_list = <<P_EN_A>>
    /\ \E columns \in PullLayouts, chunk_size \in 1..MaxChunk :
          /\ config = Config(chunk_size, 0, columns)
          /\ \E data \in SeqsUpTo({RenderedRow(columns, P_EN_A, "en"), RowUnmatched},
                                  MaxRows) :
                sheets = [n \in {"Sheet1", "Sheet2"} |->
                             IF n = "Sheet1" THEN SheetCells(0, data)
                             ELSE <<HeaderRow>>]
    /\ \E lines \in SmallCatalogs : fs = Catalogs(file_list, lines)

Init == (InitOneCatalog \/ InitManyFiles \/ InitLayouts) /\ InitRun

\* handle_pull's first loop: the files grouped by locale.
HandlePull ==
    /\ pc = "start"
    /\ LET grouped == GroupByLocale(file_list, <<>>, <<>>)
       IN  IF grouped.ok
           THEN /\ locale_file_paths' = grouped.locale_file_paths
                /\ locale_queue' = grouped.locale_list
                /\ pc' = "locales"
                /\ err' = err
           ELSE /\ pc' = "raised"
                /\ err' = "LocaleUnresolvableError"
                /\ UNCHANGED <<locale_file_paths, locale_queue>>
    /\ UNCHANGED <<run, config, file_list, fs, fs0, sheets, requests, loc>>
    /\ UNCHANGED engine_vars

\* handle_pull's second loop, a locale without settings: warn and continue.
SkipLocale ==
    /\ pc = "locales"
    /\ locale_queue # <<>>
    /\ Head(locale_queue) \notin DOMAIN config.locales
    /\ locale_queue' = Tail(locale_queue)
    /\ UNCHANGED <<pc, run, config, file_list, fs, fs0, sheets, requests,
                   locale_file_paths, loc, err>>
    /\ UNCHANGED engine_vars

\* row_start = 1 + settings["row_offset"] + 1: the header row is skipped.
FirstRow(settings) == 1 + settings.row_offset + 1

\* row_end = row_start + chunk_size - 1
RowEndExclusive(row_start, chunk_size) == row_start + chunk_size

RowEnd(row_start, chunk_size) == row_start + chunk_size - 1

\* pull_by_locale up to its loop: the locals are set, get_column_mapping may
\* raise.
PullByLocale ==
    /\ pc = "locales"
    /\ locale_queue # <<>>
    /\ Head(locale_queue) \in DOMAIN config.locales
    /\ LET settings == config.locales[Head(locale_queue)]
           columns == settings.columns
           mapping == get_column_mapping(columns)
       IN  IF mapping.found_file_name
           THEN /\ loc' = [sheet |-> settings.sheet,
                           row_start |-> FirstRow(settings),
                           row_end |-> 0,
                           column_start |-> get_column_string(1 + settings.column_offset),
                           column_end |-> get_column_string(1 + settings.column_offset
                                                            + Len(columns) - 1),
                           column_mapping |-> mapping.ret,
                           chunk_size |-> config.pull_chunk_size,
                           file_name_template |->
                               columns[mapping.ret[FILE_NAME_KEY] + 1].static,
                           file_path_map |-> locale_file_paths[Head(locale_queue)],
                           file_handle_map |-> NoHandles,
                           data |-> <<>>,
                           closing |-> 0]
                /\ pc' = "fetch"
                /\ err' = err
           ELSE /\ pc' = "raised"
                /\ err' = "ConfigurationError"
                /\ loc' = loc
    /\ UNCHANGED <<run, config, file_list, fs, fs0, sheets, requests,
                   locale_file_paths, locale_queue>>
    /\ UNCHANGED engine_vars

\* The top of pull_by_locale's loop: a chunk is fetched; the service answers
\* with the rows of the range, with or without its trailing empty rows.  No
\* row: the loop ends.
FetchChunk ==
    /\ pc = "fetch"
    /\ LET row_end == RowEnd(loc.row_start, loc.chunk_size)
           range_name == generate_range_name(loc.sheet, loc.row_start, row_end,
                                             loc.column_start, loc.column_end)
           rows == RowsInRange(sheets[loc.sheet], loc.row_start, row_end)
       IN  \E values \in {rows, TrimBlankRows(rows)} :
              /\ requests' = Append(requests,
                    [op |-> "get", sheet |-> loc.sheet, range |-> range_name,
                     row_start |-> loc.row_start, row_end |-> row_end,
                     count |-> Len(values)])
              /\ loc' = [loc EXCEPT !.row_end = row_end, !.data = values]
              /\ pc' = IF Len(values) = 0 THEN "close" ELSE "process"
    /\ UNCHANGED <<run, config, file_list, fs, fs0, sheets,
                   locale_file_paths, locale_queue, err>>
    /\ UNCHANGED engine_vars

\* The request fails: the exception of execute() ends the run.
FetchFails ==
    /\ pc = "fetch"
    /\ pc' = "raised"
    /\ err' = "ServiceError"
    /\ UNCHANGED <<run, config, file_list, fs, fs0, sheets, requests,
                   locale_file_paths, locale_queue, loc>>
    /\ UNCHANGED engine_vars

\* The state after a row of process_chunk, done being what process_row gave.
RowProcessed(done, last) ==
    /\ fs' = done.files
    /\ err' = done.err
    /\ loc' = [loc EXCEPT !.file_handle_map = done.file_handle_map,
                          !.data = Tail(@),
                          !.row_start = IF last /\ done.err = ""
                                        THEN loc.row_end + 1 ELSE @]
    /\ pc' = IF done.err # "" THEN "raised"
             ELSE IF last THEN "fetch" ELSE "process"

\* One row of process_chunk; after the last row of the chunk the next chunk
\* starts at row_end + 1.
ProcessRow ==
    /\ pc = "process"
    /\ RowProcessed(process_row(fs, loc.file_handle_map, loc, Head(loc.data)),
                    Len(loc.data) = 1)
    /\ UNCHANGED <<run, config, file_list, fs0, sheets, requests,
                   locale_file_paths, locale_queue>>
    /\ UNCHANGED engine_vars

\* One iteration of the closing loop: the handles of a file are closed and its
\* .tmp file takes the place of the original.
PromoteFile ==
    /\ pc = "close"
    /\ loc.closing < Len(loc.file_handle_map.keys)
    /\ LET file_name == loc.file_handle_map.keys[loc.closing + 1]
           full_path == loc.file_path_map[file_name]
       IN  /\ fs' = Promote(fs, full_path)
           /\ loc' = [loc EXCEPT !.closing = @ + 1,
                         !.file_handle_map.handles[file_name].closed = TRUE]
    /\ UNCHANGED <<pc, run, config, file_list, fs0, sheets, requests,
                   locale_file_paths, locale_queue, err>>
    /\ UNCHANGED engine_vars

\* pull_by_locale returns: handle_pull goes on with the next locale.
LocaleDone ==
    /\ pc = "close"
    /\ loc.closing = Len(loc.file_handle_map.keys)
    /\ pc' = "locales"
    /\ locale_queue' = Tail(locale_queue)
    /\ UNCHANGED <<run, config, file_list, fs, fs0, sheets, requests,
                   locale_file_paths, loc, err>>
    /\ UNCHANGED engine_vars

\* handle_pull returns: the run is over.
PullDone ==
    /\ pc = "locales"
    /\ locale_queue = <<>>
    /\ pc' = "done"
    /\ UNCHANGED <<run, config, file_list, fs, fs0, sheets, requests,
                   locale_file_paths, locale_queue, loc, err>>
    /\ UNCHANGED engine_vars

\* The program is run again, with the same sheets, on the files it left.
RunAgain ==
    /\ pc = "done"
    /\ run = "first"
    /\ run' = "second"
    /\ pc' = "start"
    /\ fs0' = fs
    /\ requests' = <<>>
    /\ locale_file_paths' = <<>>
    /\ loc' = IdleLoc
    /\ UNCHANGED <<config, file_list, fs, sheets, locale_queue, err>>
    /\ UNCHANGED engine_vars

Next ==
    \/ HandlePull
    \/ SkipLocale
    \/ PullByLocale
    \/ FetchChunk
    \/ FetchFails
    \/ ProcessRow
    \/ PromoteFile
    \/ LocaleDone
    \/ PullDone
    \/ RunAgain

Spec == Init /\ [][Next]_vars

\* ---------------------------------------------- claims about the pull run

\* The path of the k-th file of file_handle_map, in the order of the closing
\* loop.
HandledPath(k) == loc.file_path_map[loc.file_handle_map.keys[k]]

C4_PromotedState ==
    \A k \in 1..loc.closing :
        /\ Exists(fs, Orig(HandledPath(k)))
        /\ Exists(fs, Old(HandledPath(k)))
        /\ fs[Old(HandledPath(k))] = fs0[Orig(HandledPath(k))]
        /\ ~Exists(fs, Tmp(HandledPath(k)))

C4_PromotedStep ==
    (pc = "close" /\ loc'.closing = loc.closing + 1) =>
        fs'[Orig(HandledPath(loc.closing + 1))] = fs[Tmp(HandledPath(loc.closing + 1))]

\* C4: once the closing loop of pull_by_locale has handled a file that a row
\* named, the original path holds what the .tmp file held, the .old file holds
\* what the original held when the run started (a .old file that existed
\* before is replaced), and the .tmp file is gone.
C4_PromotionReplacesOriginal == [][C4_PromotedStep]_vars /\ []C4_PromotedState

\* A locale is pulled to its end with a stale .old file beside the catalog.
C4_Witness ==
    /\ pc = "close"
    /\ loc.closing = Len(loc.file_handle_map.keys)
    /\ loc.closing >= 1
    /\ Exists(fs0, Old(HandledPath(1)))
    /\ fs0[Old(HandledPath(1))] # fs0[Orig(HandledPath(1))]
    /\ fs[Orig(HandledPath(1))] # fs0[Orig(HandledPath(1))]

\* C5: when the run aborts on a fatal error, every file that existed when the
\* run started still has its content and no .old file has been made.
C5_AbortLeavesOriginals ==
    pc = "raised" =>
        /\ \A key \in DOMAIN fs0 :
              key[2] # ".tmp" => Exists(fs, key) /\ fs[key] = fs0[key]
        /\ \A key \in DOMAIN fs : key[2] = ".old" => Exists(fs0, key)

\* No sheet has an empty row: the service answers a range with the same rows
\* each time.
NoBlankRows == \A n \in DOMAIN sheets : \A k \in 1..Len(sheets[n]) : AnyCell(sheets[n][k])

\* C6: the second pull, with the same sheets on the files the first pull
\* left, does not fail on the catalogs and leaves every catalog as the first
\* pull left it.
C6_SecondPullIdentical ==
    (run = "second" /\ NoBlankRows) =>
        /\ pc = "raised" => err = "ServiceError"
        /\ pc = "done" =>
              \A key \in DOMAIN fs0 :
                 key[2] = "" => Exists(fs, key) /\ fs[key] = fs0[key]

\* The lines of a catalog that are no entry field: comments, blank lines,
\* continuation strings.
ContextLines(lines) == SelectSeq(lines, LAMBDA l : ~RE_ENTRY_FIELD(l).matched)

\* The msgids of the translatable entries of a catalog, in file order.
RECURSIVE MsgidsOf(_)
MsgidsOf(lines) ==
    IF lines = <<>> THEN <<>>
    ELSE LET match == RE_ENTRY_FIELD(Head(lines))
         IN  IF match.matched /\ match.field = MSGID /\ match.value # <<>>
             THEN <<match.value>> \o MsgidsOf(Tail(lines))
             ELSE MsgidsOf(Tail(lines))

\* The data rows of the sheet of locale en.
DataRows ==
    SubSeq(sheets["Sheet1"], FirstRow(config.locales["en"]), Len(sheets["Sheet1"]))

\* The rows name every translatable entry of po/en/LC_MESSAGES/a.po exactly
\* once and in file order.
RowsNameEveryEntry ==
    /\ file_list = <<P_EN_A>>
    /\ config.locales["en"].columns = Columns3
    /\ \A k \in 1..Len(DataRows) :
          Len(DataRows[k]) = 3 /\ DataRows[k][1] = NameOf(P_EN_A)
    /\ [k \in 1..Len(DataRows) |-> DataRows[k][2]] = MsgidsOf(fs0[Orig(P_EN_A)])
    /\ \A j, k \in 1..Len(DataRows) : DataRows[j][2] = DataRows[k][2] => j = k

\* C7: after a pull whose rows name every entry once and in file order, the
\* context lines of the catalog are those of the original, in the same order.
C7_ContextLinesPreserved ==
    (run = "first" /\ pc = "done" /\ RowsNameEveryEntry) =>
        ContextLines(fs[Orig(P_EN_A)]) = ContextLines(fs0[Orig(P_EN_A)])

\* The locale whose settings name the sheet.
LocaleOfSheet(sheet) ==
    CHOOSE l \in DOMAIN config.locales : config.locales[l].sheet = sheet

\* C9: the first chunk of a sheet starts at row 1 + row_offset + 1, every
\* chunk spans pull_chunk_size rows, a further chunk starts at the row after
\* the last row of the chunk before, which held rows; the rows of a chunk are
\* processed only when there are some and the files are promoted only after a
\* chunk without rows, the last one fetched.
C9_ChunksContiguous ==
    /\ \A i \in 1..Len(requests) :
          /\ requests[i].row_end =
                requests[i].row_start + config.pull_chunk_size - 1
          /\ IF i = 1 \/ requests[i - 1].sheet # requests[i].sheet
             THEN requests[i].row_start =
                     1 + config.locales[LocaleOfSheet(requests[i].sheet)].row_offset + 1
             ELSE /\ requests[i].row_start = requests[i - 1].row_end + 1
                  /\ requests[i - 1].count > 0
    /\ pc = "process" =>
          /\ loc.data # <<>>
          /\ requests[Len(requests)].count > 0
    /\ pc = "close" =>
          /\ loc.data = <<>>
          /\ requests[Len(requests)].count = 0
          /\ requests[Len(requests)].sheet = loc.sheet

\* Two chunks with rows and the chunk without rows have been fetched, below a
\* header row that is not the first row.
C9_Witness ==
    /\ pc = "close"
    /\ Len(requests) = 3
    /\ requests[1].row_start = 3
    /\ requests[1].count = 1
    /\ requests[2].row_start = 4
    /\ requests[3].row_start = 5
    /\ requests[3].count = 0

\* Some column of the list has a static template with the {file_name}
\* placeholder.
HasFileNameTemplate(columns) ==
    \E k \in 1..Len(columns) :
        "static" \in DOMAIN columns[k] /\ Contains(columns[k].static, FILE_NAME_ASSIGN)

\* C13: get_column_mapping raises the configuration error exactly when no
\* column has a static template with {file_name}; otherwise _file_name maps
\* to the index of such a column and every field of a field-backed column to
\* the index of that column.
C13_MappingRaisesIff ==
    /\ (pc = "raised" /\ err = "ConfigurationError") =>
          ~HasFileNameTemplate(config.locales[Head(locale_queue)].columns)
    /\ pc \in {"fetch", "process", "close"} =>
          LET columns == config.locales[Head(locale_queue)].columns
          IN  /\ HasFileNameTemplate(columns)
              /\ FILE_NAME_KEY \in DOMAIN loc.column_mapping
              /\ Contains(columns[loc.column_mapping[FILE_NAME_KEY] + 1].static,
                          FILE_NAME_ASSIGN)
              /\ \A k \in 1..Len(columns) :
                    "fields" \in DOMAIN columns[k] =>
                        \A f \in 1..Len(columns[k].fields) :
                            /\ columns[k].fields[f] \in DOMAIN loc.column_mapping
                            /\ loc.column_mapping[columns[k].fields[f]] = k - 1

\* C15: when pull_by_locale has ended, by its return or by an error raised
\* while a row was processed, every handle pair of its handle map is closed.
C15_HandlesReleased ==
    (\/ pc \in {"raised", "locales", "done"}
     \/ pc = "close" /\ loc.closing = Len(loc.file_handle_map.keys)) =>
        \A name \in DOMAIN loc.file_handle_map.handles :
            loc.file_handle_map.handles[name].closed

\* The file-name template of locale en and the cell push renders with it for
\* po/en/LC_MESSAGES/a.po.
TemplateOfEn == config.locales["en"].columns[1].static
RenderedCell == parse_static_text(TemplateOfEn, Metadata(P_EN_A, "en"))

\* Every data row of the sheet of en holds that cell.
RowsAsPushed ==
    /\ file_list = <<P_EN_A>>
    /\ "static" \in DOMAIN config.locales["en"].columns[1]
    /\ "fields" \notin DOMAIN config.locales["en"].columns[1]
    /\ Contains(TemplateOfEn, FILE_NAME_ASSIGN)
    /\ \A k \in 1..Len(DataRows) : Len(DataRows[k]) >= 1 /\ DataRows[k][1] = RenderedCell

\* A cell the template cannot match: a literal of the template is not in it.
Unmatchable(cell) ==
    \E j \in 1..Len(TemplateOfEn) :
        ~IsAssign(TemplateOfEn[j]) /\ ~Contains(cell, TemplateOfEn[j])

C20_ExtractionInverts ==
    RowsAsPushed =>
        /\ err \notin {"KeyError", "TemplateMismatchError"}
        /\ DOMAIN loc.file_handle_map.handles \subseteq {NameOf(P_EN_A)}

C20_UnmatchedFails ==
    (/\ pc = "close"
     /\ file_list = <<P_EN_A>>
     /\ "static" \in DOMAIN config.locales["en"].columns[1]) =>
        \A k \in 1..Len(DataRows) :
            AnyCell(DataRows[k]) => ~Unmatchable(DataRows[k][1])

\* C20: when every row holds the cell rendered from the file-name template
\* and the metadata of the file, the extraction gives the file's name for
\* each row (the pull finds the file and no other); and a row whose cell the
\* template does not match ends the pull instead of naming a file.
C20_TemplateRoundTrip == C20_ExtractionInverts /\ C20_UnmatchedFails

\* Between two msgid lines of the catalog there is a line that is no entry
\* field: a comment, a blank line or a continuation string.
SeparatedEntries(lines) ==
    \A i, j \in 1..Len(lines) :
        (i < j /\ IsMsgidLine(lines[i]) /\ IsMsgidLine(lines[j])) =>
            \E k \in (i + 1)..(j - 1) : ~RE_ENTRY_FIELD(lines[k]).matched

\* The same with a comment or a blank line between them.
SeparatedByContext(lines) ==
    \A i, j \in 1..Len(lines) :
        (i < j /\ IsMsgidLine(lines[i]) /\ IsMsgidLine(lines[j])) =>
            \E k \in (i + 1)..(j - 1) : IsContextLine(lines[k])

\* The first msgid line of the catalog with that value, 0 when there is none.
FirstMsgidLine(lines, value) ==
    LET hits == {k \in 1..Len(lines) :
                    IsMsgidLine(lines[k]) /\ RE_ENTRY_FIELD(lines[k]).value = value}
    IN  IF hits = {} THEN 0 ELSE CHOOSE k \in hits : \A j \in hits : k <= j

\* The first line of the run of field lines that holds line i.
EntryFirstLine(lines, i) ==
    CHOOSE s \in 1..i :
        /\ \A k \in s..i : RE_ENTRY_FIELD(lines[k]).matched
        /\ s = 1 \/ ~RE_ENTRY_FIELD(lines[s - 1]).matched

\* The last line of the entry whose msgid line is line i: its fields and
\* continuation strings end before a comment, a blank line, the msgid line of
\* another entry or the end of the file.
EntryLastLine(lines, i) ==
    CHOOSE e \in i..Len(lines) :
        /\ \A k \in (i + 1)..e : ~IsContextLine(lines[k]) /\ ~IsMsgidLine(lines[k])
        /\ e = Len(lines) \/ IsContextLine(lines[e + 1]) \/ IsMsgidLine(lines[e + 1])

\* The lines of the entry with that msgid (the catalogs hold one form of each
\* entry), none when the catalog has no such entry.
EntryOf(lines, value) ==
    LET i == FirstMsgidLine(lines, value)
    IN  IF i = 0 THEN <<>>
        ELSE SubSeq(lines, EntryFirstLine(lines, i), EntryLastLine(lines, i))

\* The comments and blank lines between the entry with that msgid and the
\* field line before it (or the start of the file).
ContextOf(lines, value) ==
    LET i == FirstMsgidLine(lines, value)
        s == IF i = 0 THEN 1 ELSE EntryFirstLine(lines, i)
        before == Max({0} \cup {k \in 1..(s - 1) : RE_ENTRY_FIELD(lines[k]).matched})
    IN  SelectSeq(SubSeq(lines, before + 1, s - 1), IsContextLine)

\* The header block of a catalog: the header entry and its preceding context.
HeaderBlockOf(lines) == ContextOf(lines, <<>>) \o EntryOf(lines, <<>>)

\* The cell of a row at a 0-based index; the service leaves trailing empty
\* cells out.
CellOf(row, i) == IF i < Len(row) THEN row[i + 1] ELSE <<>>

\* An entry with the value of each field taken from the row.
RewrittenEntry(entry, row, column_mapping) ==
    [k \in 1..Len(entry) |->
        IF RE_ENTRY_FIELD(entry[k]).matched
        THEN FormatField(RE_ENTRY_FIELD(entry[k]).field,
                         CellOf(row, column_mapping[RE_ENTRY_FIELD(entry[k]).field]))
        ELSE entry[k]]

\* The settings of the locale of a catalog file, which is configured.
ConfiguredPath(path) ==
    /\ get_locale_by_path(path).ok
    /\ get_locale_by_path(path).locale \in DOMAIN config.locales
SettingsOf(path) == config.locales[get_locale_by_path(path).locale]

\* The rows of the chunks the run fetched from a sheet, up to the chunk that
\* came back without rows.
RECURSIVE FetchedFrom(_, _)
FetchedFrom(settings, i) ==
    IF i > Len(requests) THEN <<>>
    ELSE (IF requests[i].sheet = settings.sheet /\ requests[i].count > 0
          THEN RowsInRange(sheets[settings.sheet], requests[i].row_start,
                           requests[i].row_end)
          ELSE <<>>)
         \o FetchedFrom(settings, i + 1)
FetchedRows(settings) == FetchedFrom(settings, 1)

\* A non-blank row whose file-name cell names the catalog file.
RowNames(row, path) ==
    LET settings == SettingsOf(path)
        mapping == get_column_mapping(settings.columns)
        assigns == extract_string_assigns(
                       settings.columns[mapping.ret[FILE_NAME_KEY] + 1].static,
                       CellOf(row, mapping.ret[FILE_NAME_KEY]))
    IN  /\ AnyCell(row)
        /\ assigns.ok
        /\ "file_name" \in DOMAIN assigns.groups
        /\ assigns.groups["file_name"] = NameOf(path)

\* Those of the rows that name the catalog file, in row order.
RowsNaming(rows, path) ==
    IF ConfiguredPath(path) /\ get_column_mapping(SettingsOf(path).columns).found_file_name
    THEN SelectSeq(rows, LAMBDA row : RowNames(row, path))
    ELSE <<>>

\* One rewritten entry per row, in row order.
RECURSIVE RewrittenEntries(_, _, _)
RewrittenEntries(lines, rows, column_mapping) ==
    IF rows = <<>> THEN <<>>
    ELSE RewrittenEntry(EntryOf(lines, CellOf(Head(rows), column_mapping[MSGID])),
                        Head(rows), column_mapping)
         \o RewrittenEntries(lines, Tail(rows), column_mapping)

\* The promoted file: the header block of the original, then, comments and
\* blank lines apart, the rewritten entries of the rows and nothing else.
PromotedAsClaimed(path, rows) ==
    LET original == fs0[Orig(path)]
        promoted == fs[Orig(path)]
        header == HeaderBlockOf(original)
        column_mapping == get_column_mapping(SettingsOf(path).columns).ret
    IN  /\ Len(promoted) >= Len(header)
        /\ SubSeq(promoted, 1, Len(header)) = header
        /\ SelectSeq(SubSeq(promoted, Len(header) + 1, Len(promoted)),
                     LAMBDA l : ~IsContextLine(l))
             = RewrittenEntries(original, rows, column_mapping)

\* The catalog file is as it was when the run started, and so are the .tmp
\* and .old files beside it.
Untouched(path) ==
    \A key \in {Orig(path), Tmp(path), Old(path)} :
        /\ Exists(fs, key) <=> Exists(fs0, key)
        /\ Exists(fs, key) => fs[key] = fs0[key]

\* C21: after a successful pull, a catalog whose entries are separated from
\* each other by a non-field line holds the header block of the original
\* followed by exactly one rewritten entry per non-blank row that names the
\* file, in row order (the rows being those of the chunks the pull fetched),
\* so that an entry no row names is not in it; and a catalog file that no row
\* names is unchanged, with no .tmp or .old file made for it.
C21_PromotedFileIsHeaderAndRows ==
    pc = "done" =>
        \A k \in 1..Len(file_list) :
            LET path == file_list[k]
                rows == IF ConfiguredPath(path)
                        THEN RowsNaming(FetchedRows(SettingsOf(path)), path)
                        ELSE <<>>
            IN  IF rows = <<>> THEN Untouched(path)
                ELSE SeparatedEntries(fs0[Orig(path)]) => PromotedAsClaimed(path, rows)

\* The same for the catalogs whose entries have a comment or a blank line
\* between them.
C21_SeparatedByCommentOrBlank ==
    pc = "done" =>
        \A k \in 1..Len(file_list) :
            LET path == file_list[k]
                rows == IF ConfiguredPath(path)
                        THEN RowsNaming(FetchedRows(SettingsOf(path)), path)
                        ELSE <<>>
            IN  IF rows = <<>> THEN Untouched(path)
                ELSE SeparatedByContext(fs0[Orig(path)]) => PromotedAsClaimed(path, rows)

\* A pull of two rows that name entries of a catalog with blank lines between
\* its entries has ended and has changed the catalog; a file of a configured
\* locale that no row names lies in the file list too.
C21_SeparatedPulled ==
    /\ pc = "done"
    /\ run = "first"
    /\ SeparatedByContext(fs0[Orig(P_EN_A)])
    /\ Len(RowsNaming(FetchedRows(config.locales["en"]), P_EN_A)) = 2
    /\ fs[Orig(P_EN_A)] # fs0[Orig(P_EN_A)]
    /\ \E k \in 1..Len(file_list) :
          /\ ConfiguredPath(file_list[k])
          /\ RowsNaming(FetchedRows(SettingsOf(file_list[k])), file_list[k]) = <<>>

\* ----------------------------------------------------- the push operations

\* any(entry.values()): some value is not the empty string.
AnyValue(entry) == \E f \in DOMAIN entry : entry[f] # <<>>

\* process_po_file's loop over the lines left to read, entry and entries being
\* its locals; at the end of the file the last entry is appended "if entry".
RECURSIVE ProcessLines(_, _, _)
ProcessLines(lines, entry, entries) ==
    IF lines = <<>>
    THEN IF DOMAIN entry # {} THEN Append(entries, entry) ELSE entries
    ELSE LET match == RE_ENTRY_FIELD(Strip(Head(lines)))
         IN  IF ~match.matched
             THEN ProcessLines(Tail(lines), entry, entries)
             ELSE IF match.field \in DOMAIN entry
             THEN ProcessLines(Tail(lines), (match.field :> match.value),
                     IF AnyValue(entry) THEN Append(entries, entry) ELSE entries)
             ELSE ProcessLines(Tail(lines),
                     (match.field :> match.value) @@ entry, entries)

\* process_po_file(path), lines being the content of the file at path.
process_po_file(lines) == ProcessLines(lines, <<>>, <<>>)

\* The loop of populate_column: the first eligible field the entry has.
RECURSIVE LastEligible(_, _)
LastEligible(eligible_fields, entry) ==
    IF eligible_fields = <<>> THEN <<>>
    ELSE IF eligible_fields[Len(eligible_fields)] \in DOMAIN entry
    THEN entry[eligible_fields[Len(eligible_fields)]]
    ELSE LastEligible(SubSeq(eligible_fields, 1, Len(eligible_fields) - 1), entry)

RECURSIVE FirstEligible(_, _)
FirstEligible(eligible_fields, entry) ==
    IF eligible_fields = <<>> THEN <<>>
    ELSE IF Head(eligible_fields) \in DOMAIN entry
    THEN entry[Head(eligible_fields)]
    ELSE FirstEligible(Tail(eligible_fields), entry)

populate_column(column, entry, metadata) ==
    IF "static" \in DOMAIN column /\ column.static # <<>>
    THEN parse_static_text(column.static, metadata)
    ELSE FirstEligible(column.fields, entry)

build_request_entry(columns, entry, metadata) ==
    [k \in 1..Len(columns) |-> populate_column(columns[k], entry, metadata)]

\* build_request_body: range_name and body["values"], with the locals
\* row_start, row_end, column_start and column_end.
build_request_body(settings, entries, row_offset, print_header, metadata) ==
    LET row_start == 1 + row_offset
        row_end == row_start + Len(entries) - 1 + (IF print_header THEN 1 ELSE 0)
        columns == settings.columns
        column_start == get_column_string(1 + settings.column_offset)
        column_end == get_column_string(1 + settings.column_offset + Len(columns) - 1)
        headers == IF print_header
                   THEN <<[k \in 1..Len(columns) |-> <<columns[k].header>>]>>
                   ELSE <<>>
    IN  [range_name |-> generate_range_name(settings.sheet, row_start, row_end,
                                            column_start, column_end),
         row_start |-> row_start,
         row_end |-> row_end,
         column_start |-> column_start,
         column_end |-> column_end,
         values |-> headers \o
                    [k \in 1..Len(entries) |->
                        build_request_entry(columns, entries[k], metadata)]]

\* locale_row_offsets[locale] = row_offset + updated_rows
NextRowOffsetStale(row_offset, updated_rows) == row_offset

NextRowOffset(row_offset, updated_rows) == row_offset + updated_rows

\* The sheet after values().update: the rows from row_start on are values.
WriteRows(cells, row_start, values) ==
    IF values = <<>> THEN cells
    ELSE [k \in 1..Max({Len(cells), row_start + Len(values) - 1}) |->
            IF k \in row_start..(row_start + Len(values) - 1)
            THEN values[k - row_start + 1]
            ELSE IF k <= Len(cells) THEN cells[k] ELSE <<>>]

\* ------------------------------------------------------------ the push run

\* Largest number of files pushed, and longest catalog of a single file, in
\* blocks.
MaxFiles == 3
MaxPushBlocks == 3

P_EN_C == <<"po", "en", "LC_MESSAGES", "c.po">>
PushPaths == {P_EN_A, P_EN_B, P_EN_C, P_FR_A, P_DE_A, P_BARE}

\* An entry without a translation, and a field line that is indented.
EntryUntranslated == <<LineIdB, LineHeaderStr>>
LineIndentedId == <<SP>> \o LineIdA
PushBlocks == {HeaderBlock, EntryA, EntryUntranslated, <<LineBlank>>,
               <<LineIndentedId, LineStrX>>}
PushCatalogs == {Flatten(body) : body \in SeqsUpTo(PushBlocks, MaxPushBlocks)}
PushSmallCatalogs == {<<LineComment>>, CatalogHAB}

\* Largest column_offset of a locale's settings.
MaxColumnOffset == 704

\* An entry with a context, and column lists of a push: two field-backed
\* columns, and a column that falls back from msgctxt to msgid.
EntryCtx == <<LineCtxC, LineIdA, LineStrX>>
TwoFieldColumns == <<MsgidColumn, MsgstrColumn>>
FallbackColumn == [fields |-> <<MSGCTXT, MSGID>>, header |-> "KEY"]
FallbackColumns == <<FileColumn, FallbackColumn, MsgstrColumn>>

\* The lists of distinct files find_files may give.
PushFileLists ==
    {files \in SeqsUpTo(PushPaths, MaxFiles) :
        \A j, k \in 1..Len(files) : files[j] = files[k] => j = k}

\* The locals of handle_push: locale_row_offsets, the number of files the loop
\* has gone through, and file_entries of the last one.
PushStart == [locale_row_offsets |-> <<>>, index |-> 0, file_entries |-> <<>>]

InitPushRun ==
    /\ EngineIdle
    /\ pc = "push"
    /\ run = "first"
    /\ fs0 = fs
    /\ sheets = [n \in {"Sheet1", "Sheet2"} |-> <<>>]
    /\ requests = <<>>
    /\ locale_file_paths = <<>>
    /\ locale_queue = <<>>
    /\ loc = PushStart
    /\ err = ""

\* One file of every shape.
InitPushOneFile ==
    /\ file_list = <<P_EN_A>>
    /\ config = Config(MaxChunk, 0, Columns3)
    /\ \E lines \in PushCatalogs : fs = (Orig(P_EN_A) :> lines)

\* Several files of several locales.
InitPushManyFiles ==
    /\ file_list \in PushFileLists
    /\ \E row_offset \in {0, 1}, columns \in {Columns3, ColumnsNoFileName} :
          config = Config(MaxChunk, row_offset, columns)
    /\ \E content \in [{file_list[k] : k \in 1..Len(file_list)} -> PushSmallCatalogs] :
          fs = [key \in {Orig(file_list[k]) : k \in 1..Len(file_list)} |->
                   content[key[1]]]

\* One file, every placement of the table in the sheet.
InitPushLayouts ==
    /\ file_list = <<P_EN_A>>
    /\ \E row_offset \in {0, 5}, column_offset \in 0..MaxColumnOffset,
          columns \in {TwoFieldColumns, FallbackColumns} :
          config = [Config(MaxChunk, row_offset, columns) EXCEPT
                        !.locales["en"].column_offset = column_offset]
    /\ \E lines \in {CatalogHAB, HeaderBlock \o EntryCtx \o EntryUntranslated} :
          fs = (Orig(P_EN_A) :> lines)

InitPush == (InitPushOneFile \/ InitPushManyFiles \/ InitPushLayouts) /\ InitPushRun

\* The file the loop of handle_push is at, and its locale.
PushPath == file_list[loc.index + 1]
PushLocale == get_locale_by_path(PushPath)

\* The state after update_sheet answered: request is what build_request_body
\* gave, updated_rows is result.get('updatedRows', 0).
Updated(settings, file_entries, row_offset, print_header, request, updated_rows) ==
    /\ requests' = Append(requests,
          [op |-> "update", sheet |-> settings.sheet, range |-> request.range_name,
           row_start |-> request.row_start, row_end |-> request.row_end,
           column_start |-> request.column_start,
           column_end |-> request.column_end,
           values |-> request.values, updated_rows |-> updated_rows,
           file |-> PushPath, row_offset |-> row_offset,
           print_header |-> print_header])
    /\ sheets' = [sheets EXCEPT ![settings.sheet] =
                     WriteRows(@, request.row_start, request.values)]
    /\ loc' = [locale_row_offsets |->
                  (PushLocale.locale :> NextRowOffset(row_offset, updated_rows))
                  @@ loc.locale_row_offsets,
               index |-> loc.index + 1,
               file_entries |-> file_entries]

\* The body of handle_push's loop from print_header on.
PushEntries(settings, file_entries, row_offset, print_header) ==
    \E honest \in BOOLEAN :
        Updated(settings, file_entries, row_offset, print_header,
                build_request_body(settings, file_entries, row_offset, print_header,
                                   Metadata(PushPath, PushLocale.locale)),
                IF honest
                THEN Len(file_entries) + (IF print_header THEN 1 ELSE 0)
                ELSE 0)

\* One iteration of handle_push's loop for a file of a configured locale: the
\* service answers with updatedRows, or without it.
PushFile ==
    /\ pc = "push"
    /\ loc.index < Len(file_list)
    /\ PushLocale.ok
    /\ PushLocale.locale \in DOMAIN config.locales
    /\ PushEntries(config.locales[PushLocale.locale],
                   process_po_file(fs[Orig(PushPath)]),
                   IF PushLocale.locale \in DOMAIN loc.locale_row_offsets
                   THEN loc.locale_row_offsets[PushLocale.locale]
                   ELSE config.locales[PushLocale.locale].row_offset,
                   PushLocale.locale \notin DOMAIN loc.locale_row_offsets)
    /\ UNCHANGED <<pc, run, config, file_list, fs, fs0, locale_file_paths,
                   locale_queue, err>>
    /\ UNCHANGED engine_vars

\* A file of a locale without settings: warn and continue.
PushSkipsFile ==
    /\ pc = "push"
    /\ loc.index < Len(file_list)
    /\ PushLocale.ok
    /\ PushLocale.locale \notin DOMAIN config.locales
    /\ loc' = [loc EXCEPT !.index = @ + 1,
                          !.file_entries = process_po_file(fs[Orig(PushPath)])]
    /\ UNCHANGED <<pc, run, config, file_list, fs, fs0, sheets, requests,
                   locale_file_paths, locale_queue, err>>
    /\ UNCHANGED engine_vars

\* get_locale_by_path raises: the run ends.
PushLocaleFails ==
    /\ pc = "push"
    /\ loc.index < Len(file_list)
    /\ ~PushLocale.ok
    /\ pc' = "raised"
    /\ err' = "LocaleUnresolvableError"
    /\ UNCHANGED <<run, config, file_list, fs, fs0, sheets, requests,
                   locale_file_paths, locale_queue, loc>>
    /\ UNCHANGED engine_vars

\* The update request fails: the exception of execute() ends the run.
UpdateFails ==
    /\ pc = "push"
    /\ loc.index < Len(file_list)
    /\ PushLocale.ok
    /\ PushLocale.locale \in DOMAIN config.locales
    /\ pc' = "raised"
    /\ err' = "ServiceError"
    /\ loc' = [loc EXCEPT !.file_entries = process_po_file(fs[Orig(PushPath)])]
    /\ UNCHANGED <<run, config, file_list, fs, fs0, sheets, requests,
                   locale_file_paths, locale_queue>>
    /\ UNCHANGED engine_vars

\* handle_push returns.
PushDone ==
    /\ pc = "push"
    /\ loc.index = Len(file_list)
    /\ pc' = "pushed"
    /\ UNCHANGED <<run, config, file_list, fs, fs0, sheets, requests,
                   locale_file_paths, locale_queue, loc, err>>
    /\ UNCHANGED engine_vars

NextPush ==
    \/ PushFile
    \/ PushSkipsFile
    \/ PushLocaleFails
    \/ UpdateFails
    \/ PushDone

SpecPush == InitPush /\ [][NextPush]_vars

\* ---------------------------------------------- claims about the push run

\* The entries a file accumulates, each closed by a repeated field name or by
\* the end of the file, kept or not.
RECURSIVE AccumulatedFrom(_, _, _)
AccumulatedFrom(lines, entry, entries) ==
    IF lines = <<>>
    THEN IF DOMAIN entry # {} THEN Append(entries, entry) ELSE entries
    ELSE LET match == RE_ENTRY_FIELD(Strip(Head(lines)))
         IN  IF ~match.matched
             THEN AccumulatedFrom(Tail(lines), entry, entries)
             ELSE IF match.field \in DOMAIN entry
             THEN AccumulatedFrom(Tail(lines), (match.field :> match.value),
                                  Append(entries, entry))
             ELSE AccumulatedFrom(Tail(lines),
                                  (match.field :> match.value) @@ entry, entries)

\* C8: the entries process_po_file returned for the last file read are, in
\* source order, the accumulated entries of the file that have a non-empty
\* value; none of them has only empty values.
C8_OnlyNonEmptyEntriesKept ==
    (pc \in {"push", "pushed"} /\ loc.index >= 1) =>
        /\ loc.file_entries =
              SelectSeq(AccumulatedFrom(fs[Orig(file_list[loc.index])], <<>>, <<>>),
                        AnyValue)
        /\ \A k \in 1..Len(loc.file_entries) : AnyValue(loc.file_entries[k])

\* Every answer of the service so far held updatedRows, the number of rows
\* sent.
ServiceHonest ==
    \A i \in 1..Len(requests) : requests[i].updated_rows = Len(requests[i].values)

\* The requests before the i-th one that went to the same sheet.
EarlierOfSheet(i) == {j \in 1..(i - 1) : requests[j].sheet = requests[i].sheet}

\* The files of a configured locale among the files the loop has gone through.
ConfiguredFiles ==
    SelectSeq(SubSeq(file_list, 1, loc.index),
              LAMBDA path : get_locale_by_path(path).locale \in DOMAIN config.locales)

HeaderOf(columns) == [k \in 1..Len(columns) |-> <<columns[k].header>>]

\* C10: with a service that reports the rows sent, the requests of a locale
\* cover contiguous ranges in the order of the files (the first one starts at
\* row 1 + row_offset, each other one at the row after the last row of the one
\* before), there is one request for each file of a configured locale, and
\* only the first request of a locale starts with the header row.
C10_PushRangesContiguous ==
    (pc \in {"push", "pushed"} /\ ServiceHonest) =>
        /\ [i \in 1..Len(requests) |-> requests[i].file] = ConfiguredFiles
        /\ \A i \in 1..Len(requests) :
              LET settings == config.locales[LocaleOfSheet(requests[i].sheet)]
                  entries == process_po_file(fs[Orig(requests[i].file)])
              IN  /\ requests[i].row_end =
                        requests[i].row_start + Len(requests[i].values) - 1
                  /\ IF EarlierOfSheet(i) = {}
                     THEN /\ requests[i].row_start = 1 + settings.row_offset
                          /\ Len(requests[i].values) = Len(entries) + 1
                          /\ requests[i].values[1] = HeaderOf(settings.columns)
                     ELSE /\ requests[i].row_start =
                                requests[Max(EarlierOfSheet(i))].row_end + 1
                          /\ Len(requests[i].values) = Len(entries)
                          /\ \A k \in 1..Len(requests[i].values) :
                                requests[i].values[k] # HeaderOf(settings.columns)

\* Three files of one locale have been pushed below a row offset, the second
\* one without an entry, the service honest.
C10_Witness ==
    /\ pc = "pushed"
    /\ ServiceHonest
    /\ Len(requests) = 3
    /\ \A i \in 1..3 : requests[i].sheet = "Sheet1"
    /\ requests[1].row_start = 2
    /\ Len(requests[2].values) = 0
    /\ Len(requests[3].values) = 2

\* The value of a field-backed column for an entry: that of the first listed
\* field the entry has, the empty text when it has none.
FirstPresent(fields, entry) ==
    LET present == {m \in 1..Len(fields) : fields[m] \in DOMAIN entry}
    IN  IF present = {} THEN <<>>
        ELSE entry[fields[CHOOSE m \in present : \A j \in present : m <= j]]

\* C11: every update request has the range S!<col(1+c)><1+r>:<col(c+k)><r+n+h>
\* and n+h rows of values: the header row first when h = 1, then a row for
\* each entry of the file, in source order, whose field-backed columns hold
\* the value of the first listed field the entry has; a header and two
\* entries below row offset 5 in two columns go to Sheet1!A6:B8.
C11_RequestBodyLayout ==
    \A i \in 1..Len(requests) :
        LET settings == config.locales[LocaleOfSheet(requests[i].sheet)]
            columns == settings.columns
            c == settings.column_offset
            k == Len(columns)
            r == requests[i].row_offset
            h == IF requests[i].print_header THEN 1 ELSE 0
            entries == process_po_file(fs[Orig(requests[i].file)])
            n == Len(entries)
            values == requests[i].values
        IN  /\ requests[i].range =
                  <<requests[i].sheet, "!">> \o get_column_string(1 + c)
                  \o <<ToString(1 + r), ":">> \o get_column_string(c + k)
                  \o <<ToString(r + n + h)>>
            /\ (r = 5 /\ c = 0 /\ k = 2 /\ n = 2 /\ h = 1) =>
                  requests[i].range = <<"Sheet1", "!", "A", "6", ":", "B", "8">>
            /\ Len(values) = n + h
            /\ h = 1 => values[1] = HeaderOf(columns)
            /\ \A e \in 1..n :
                  /\ Len(values[e + h]) = k
                  /\ \A m \in 1..k :
                        "static" \notin DOMAIN columns[m] =>
                            values[e + h][m] = FirstPresent(columns[m].fields, entries[e])

\* A header and two entries were pushed below row offset 5 to two columns.
C11_Witness ==
    /\ Len(requests) = 1
    /\ requests[1].row_offset = 5
    /\ requests[1].print_header
    /\ Len(requests[1].values) = 3
    /\ requests[1].range = <<"Sheet1", "!", "A", "6", ":", "B", "8">>
    /\ requests[1].values[2] = <<<<"a">>, <<"x">>>>
    /\ requests[1].values[3] = <<<<"b">>, <<"x">>>>

\* The bijective base-26 value of a letter string, the first letter the most
\* significant: A is 1, Z is 26.
RECURSIVE ColumnIndexOf(_)
ColumnIndexOf(letters) ==
    IF letters = <<>> THEN 0
    ELSE 26 * ColumnIndexOf(SubSeq(letters, 1, Len(letters) - 1))
         + (CHOOSE v \in 1..26 : Letters[v] = letters[Len(letters)])

IsColumnString(letters, n) ==
    /\ letters # <<>>
    /\ \A j \in 1..Len(letters) : \E v \in 1..26 : Letters[v] = letters[j]
    /\ ColumnIndexOf(letters) = n
    /\ n = 1 => letters = <<"A">>
    /\ n = 26 => letters = <<"Z">>
    /\ n = 27 => letters = <<"A", "A">>
    /\ n = 52 => letters = <<"A", "Z">>
    /\ n = 53 => letters = <<"B", "A">>

\* C12: the column letters of every request are the bijective base-26 strings
\* of the column indices 1 + column_offset and column_offset + len(columns):
\* not empty, letters only, and converting them back gives the index.
C12_ColumnStringBijective ==
    \A i \in 1..Len(requests) :
        LET settings == config.locales[LocaleOfSheet(requests[i].sheet)]
        IN  /\ IsColumnString(requests[i].column_start, 1 + settings.column_offset)
            /\ IsColumnString(requests[i].column_end,
                              settings.column_offset + Len(settings.columns))

\* A request went to the columns ZZ to AAA.
C12_Witness ==
    /\ Len(requests) = 1
    /\ requests[1].column_start = <<"Z", "Z">>
    /\ requests[1].column_end = <<"A", "A", "A">>

\* C14: no request goes to the sheet of a locale whose columns have no static
\* template with {file_name}, and a run over a file of such a locale ends
\* with the configuration error.
C14_ConfigurationErrorFirst ==
    /\ \A i \in 1..Len(requests) :
          HasFileNameTemplate(config.locales[LocaleOfSheet(requests[i].sheet)].columns)
    /\ pc = "pushed" =>
          \A k \in 1..Len(file_list) :
              get_locale_by_path(file_list[k]).locale \in DOMAIN config.locales =>
                  HasFileNameTemplate(
                      config.locales[get_locale_by_path(file_list[k]).locale].columns)

\* C16: a path without a locale fails alone: when the push is over, by its
\* return or by the error of that path, every file of a configured locale,
\* before or after it in the list, has been sent.
C16_OnlyThatFileFails ==
    (\/ pc = "pushed"
     \/ pc = "raised" /\ err = "LocaleUnresolvableError") =>
        \A k \in 1..Len(file_list) :
            (/\ get_locale_by_path(file_list[k]).ok
             /\ get_locale_by_path(file_list[k]).locale \in DOMAIN config.locales) =>
                \E i \in 1..Len(requests) : requests[i].file = file_list[k]


=============================================================================
